---- MODULE Spec2Model ----
(***************************************************************************)
(* Model of crates/language_models/src/provider/grok.rs: the Grok          *)
(* provider's credential State, its configuration view, the model catalog  *)
(* and the per-handle request limiter.                                     *)
(*                                                                         *)
(* Scheduling: gpui runs every spawned future on one foreground executor;  *)
(* a future runs without interruption between two await points, so one     *)
(* action of the model is one such uninterrupted stretch of a handler.     *)
(***************************************************************************)
EXTENDS Bags, FiniteSets, Integers, Sequences, TLC

VARIABLES
    api_key,                \* State.api_key: None or the key string
    api_key_from_env,       \* State.api_key_from_env
    env_var,                \* value of the XAI_API_KEY environment variable
    api_url,                \* settings.grok.api_url
    credentials,            \* credential store: url -> stored secret bytes
    tasks,                  \* bag of spawned State tasks that have not finished
    load_credentials_task,  \* ConfigurationView.load_credentials_task
    last,                   \* the State operation that finished most recently
    available_models,       \* settings.grok.available_models
    catalog,                \* what provided_models() returned last
    request_limiter,        \* free permits of one handle's RateLimiter
    calls,                  \* bag of that handle's stream_completion calls in flight
    last_call               \* the stream_completion call that finished most recently

vars == <<api_key, api_key_from_env, env_var, api_url, credentials, tasks,
          load_credentials_task, last, available_models, catalog,
          request_limiter, calls, last_call>>

\* The variables of the catalog and of the model handle.
catalog_vars == <<available_models, catalog>>
handle_vars == <<request_limiter, calls, last_call>>

----------------------------------------------------------------------------
(* Values *)

None == "None"

\* Keys a user types into the api_key_editor ("" is the empty editor).
UserKeys == {"k1", "k2"}
EditorTexts == UserKeys \cup {""}

\* std::env::var(XAI_API_KEY_VAR): Err(NotPresent), Err(NotUnicode) or Ok(value).
NotUnicode == "NotUnicode"
EnvKey == "env-key"
EnvValues == {None, NotUnicode, EnvKey}

\* Secret bytes the store can hold for a url: nothing, a key written by
\* set_api_key, or bytes that are not valid UTF-8.
InvalidUtf8 == "InvalidUtf8"
ReadFailed == "ReadFailed"

Urls == {"", "https://proxy.example/v1"}

\* Number of State tasks that may be in flight at once.
MaxTasks == 2

NoOp ==
    [kind |-> "none", res |-> "none", key |-> None, ready |-> FALSE,
     after_reset |-> FALSE, raced |-> 0, tick |-> 0]

----------------------------------------------------------------------------
(* State *)

is_authenticated == api_key # None

\* The number of authenticate tasks in flight.
AuthInFlight ==
    LET S == {t \in BagToSet(tasks) : t.kind = "authenticate"}
        RECURSIVE Sum(_)
        Sum(T) == IF T = {} THEN 0
                  ELSE LET t == CHOOSE x \in T : TRUE IN CopiesIn(t, tasks) + Sum(T \ {t})
    IN  Sum(S)

\* The record of a finished operation: its result, the key it adopted, whether
\* it was the ready Task of line 99, whether the operation that finished
\* before it was a reset_api_key, and, for a set_api_key or reset_api_key, how
\* many authenticate tasks were in flight when it finished; tick flips on
\* every completion.
Finished(kind, res, key, ready) ==
    [kind |-> kind, res |-> res, key |-> key, ready |-> ready,
     after_reset |-> (last.kind = "reset_api_key"),
     raced |-> IF kind \in {"set_api_key", "reset_api_key"} THEN AuthInFlight ELSE 0,
     tick |-> 1 - last.tick]

Task(kind, pc, key, awaited) ==
    [kind |-> kind, pc |-> pc, key |-> key, url |-> api_url, awaited |-> awaited]

Spawn(t) == tasks (+) SetToBag({t})
Retire(t) == tasks (-) SetToBag({t})
Running == BagToSet(tasks)
CanSpawn == BagCardinality(tasks) < MaxTasks

\* State::authenticate, up to the return of the Task (lines 97-107).
authenticate(awaited) ==
    IF is_authenticated
    THEN /\ last' = Finished("authenticate", "Ok", api_key, TRUE)
         /\ UNCHANGED <<api_key, api_key_from_env, env_var, api_url, credentials, tasks>>
    ELSE /\ CanSpawn
         /\ tasks' = Spawn(Task("authenticate", "spawned", None, awaited))
         /\ UNCHANGED <<api_key, api_key_from_env, env_var, api_url, credentials, last>>

\* AuthenticateRun as it would be if the environment's key were saved to the
\* store like a typed one.
AuthenticateRun_PersistsEnv(t) ==
    /\ t \in Running
    /\ t.kind = "authenticate" /\ t.pc = "spawned"
    /\ IF env_var \notin {None, NotUnicode}
       THEN /\ api_key' = env_var
            /\ api_key_from_env' = TRUE
            /\ tasks' = Retire(t)
            /\ last' = Finished("authenticate", "Ok", env_var, FALSE)
            /\ credentials' = [credentials EXCEPT ![t.url] = env_var]
       ELSE /\ \E got \in {ReadFailed, credentials[t.url]} :
                tasks' = Spawn([t EXCEPT !.pc = "read", !.key = got]) (-) SetToBag({t})
            /\ UNCHANGED <<api_key, api_key_from_env, credentials, last>>
    /\ UNCHANGED <<env_var, api_url, load_credentials_task>>
    /\ UNCHANGED <<catalog_vars, handle_vars>>

\* The spawned future of authenticate, from its first poll to the await of
\* read_credentials (lines 108-113).  With the variable set there is no await:
\* the future runs to its end in this one step.
AuthenticateRun(t) ==
    /\ t \in Running
    /\ t.kind = "authenticate" /\ t.pc = "spawned"
    /\ IF env_var \notin {None, NotUnicode}
       THEN /\ api_key' = env_var
            /\ api_key_from_env' = TRUE
            /\ tasks' = Retire(t)
            /\ last' = Finished("authenticate", "Ok", env_var, FALSE)
            /\ UNCHANGED credentials
       ELSE /\ \E got \in {ReadFailed, credentials[t.url]} :
                tasks' = Spawn([t EXCEPT !.pc = "read", !.key = got]) (-) SetToBag({t})
            /\ UNCHANGED <<api_key, api_key_from_env, credentials, last>>
    /\ UNCHANGED <<env_var, api_url, load_credentials_task>>
    /\ UNCHANGED <<catalog_vars, handle_vars>>

\* AuthenticateResume as it would be if a missing entry were taken for an
\* empty key (unwrap_or_default in place of ok_or).
AuthenticateResume_MissingIsEmptyKey(t) ==
    /\ t \in Running
    /\ t.kind = "authenticate" /\ t.pc = "read"
    /\ tasks' = Retire(t)
    /\ IF t.key = ReadFailed
       THEN /\ last' = Finished("authenticate", "ReadError", None, FALSE)
            /\ UNCHANGED <<api_key, api_key_from_env>>
       ELSE IF t.key = InvalidUtf8
       THEN /\ last' = Finished("authenticate", "InvalidKey", None, FALSE)
            /\ UNCHANGED <<api_key, api_key_from_env>>
       ELSE /\ api_key' = IF t.key = None THEN "" ELSE t.key
            /\ api_key_from_env' = FALSE
            /\ last' = Finished("authenticate", "Ok", t.key, FALSE)
    /\ UNCHANGED <<env_var, api_url, credentials, load_credentials_task>>
    /\ UNCHANGED <<catalog_vars, handle_vars>>

\* AuthenticateResume as it would be if the flag of the other branch were
\* returned for a stored key.
AuthenticateResume_FlagsEnv(t) ==
    /\ t \in Running
    /\ t.kind = "authenticate" /\ t.pc = "read"
    /\ tasks' = Retire(t)
    /\ IF t.key = ReadFailed
       THEN /\ last' = Finished("authenticate", "ReadError", None, FALSE)
            /\ UNCHANGED <<api_key, api_key_from_env>>
       ELSE IF t.key = None
       THEN /\ last' = Finished("authenticate", "CredentialsNotFound", None, FALSE)
            /\ UNCHANGED <<api_key, api_key_from_env>>
       ELSE IF t.key = InvalidUtf8
       THEN /\ last' = Finished("authenticate", "InvalidKey", None, FALSE)
            /\ UNCHANGED <<api_key, api_key_from_env>>
       ELSE /\ api_key' = t.key
            /\ api_key_from_env' = TRUE
            /\ last' = Finished("authenticate", "Ok", t.key, FALSE)
    /\ UNCHANGED <<env_var, api_url, credentials, load_credentials_task>>
    /\ UNCHANGED <<catalog_vars, handle_vars>>

\* The future of authenticate after read_credentials has answered (lines 113-128).
AuthenticateResume(t) ==
    /\ t \in Running
    /\ t.kind = "authenticate" /\ t.pc = "read"
    /\ tasks' = Retire(t)
    /\ IF t.key = ReadFailed
       THEN /\ last' = Finished("authenticate", "ReadError", None, FALSE)
            /\ UNCHANGED <<api_key, api_key_from_env>>
       ELSE IF t.key = None
       THEN /\ last' = Finished("authenticate", "CredentialsNotFound", None, FALSE)
            /\ UNCHANGED <<api_key, api_key_from_env>>
       ELSE IF t.key = InvalidUtf8
       THEN /\ last' = Finished("authenticate", "InvalidKey", None, FALSE)
            /\ UNCHANGED <<api_key, api_key_from_env>>
       ELSE /\ api_key' = t.key
            /\ api_key_from_env' = FALSE
            /\ last' = Finished("authenticate", "Ok", t.key, FALSE)
    /\ UNCHANGED <<env_var, api_url, credentials, load_credentials_task>>
    /\ UNCHANGED <<catalog_vars, handle_vars>>

\* State::reset_api_key: the call spawns the future (lines 68-69).
reset_api_key ==
    /\ CanSpawn
    /\ tasks' = Spawn(Task("reset_api_key", "spawned", None, FALSE))
    /\ UNCHANGED <<api_key, api_key_from_env, env_var, api_url, credentials,
                   load_credentials_task, last>>
    /\ UNCHANGED <<catalog_vars, handle_vars>>

\* ResetRun as it would be if reset also deleted the store's entry.
ResetRun_ClearsStore(t) ==
    /\ t \in Running
    /\ t.kind = "reset_api_key"
    /\ api_key' = None
    /\ api_key_from_env' = FALSE
    /\ credentials' = [credentials EXCEPT ![t.url] = None]
    /\ tasks' = Retire(t)
    /\ last' = Finished("reset_api_key", "Ok", None, FALSE)
    /\ UNCHANGED <<env_var, api_url, load_credentials_task>>
    /\ UNCHANGED <<catalog_vars, handle_vars>>

\* ResetRun as it would be if reset cleared the key and forgot the flag.
ResetRun_KeepsFlag(t) ==
    /\ t \in Running
    /\ t.kind = "reset_api_key"
    /\ api_key' = None
    /\ tasks' = Retire(t)
    /\ last' = Finished("reset_api_key", "Ok", None, FALSE)
    /\ UNCHANGED <<api_key_from_env, env_var, api_url, credentials, load_credentials_task>>
    /\ UNCHANGED <<catalog_vars, handle_vars>>

\* The spawned future of reset_api_key (lines 70-74).
ResetRun(t) ==
    /\ t \in Running
    /\ t.kind = "reset_api_key"
    /\ api_key' = None
    /\ api_key_from_env' = FALSE
    /\ tasks' = Retire(t)
    /\ last' = Finished("reset_api_key", "Ok", None, FALSE)
    /\ UNCHANGED <<env_var, api_url, credentials, load_credentials_task>>
    /\ UNCHANGED <<catalog_vars, handle_vars>>

\* State::set_api_key: the call captures the url and spawns the future (lines 78-84).
set_api_key(key) ==
    /\ CanSpawn
    /\ tasks' = Spawn(Task("set_api_key", "spawned", key, FALSE))
    /\ UNCHANGED <<api_key, api_key_from_env, env_var, api_url, credentials, last>>

\* The future of set_api_key up to the await of write_credentials (lines 85-88):
\* the store takes the write or fails; the error is logged and dropped.
SetWrite(t) ==
    /\ t \in Running
    /\ t.kind = "set_api_key" /\ t.pc = "spawned"
    /\ \E ok \in BOOLEAN :
        /\ credentials' = IF ok THEN [credentials EXCEPT ![t.url] = t.key] ELSE credentials
        /\ tasks' = Spawn([t EXCEPT !.pc = IF ok THEN "written" ELSE "write_failed"])
                        (-) SetToBag({t})
    /\ UNCHANGED <<api_key, api_key_from_env, env_var, api_url, load_credentials_task, last>>
    /\ UNCHANGED <<catalog_vars, handle_vars>>

\* SetUpdate as it would be if the write's error were propagated with ?
\* instead of logged: a failed write ends the task before State is touched.
SetUpdate_OnlyIfWritten(t) ==
    /\ t \in Running
    /\ t.kind = "set_api_key" /\ t.pc \in {"written", "write_failed"}
    /\ IF t.pc = "written"
       THEN api_key' = t.key /\ api_key_from_env' = FALSE
       ELSE UNCHANGED <<api_key, api_key_from_env>>
    /\ tasks' = Retire(t)
    /\ last' = Finished("set_api_key", IF t.pc = "written" THEN "Ok" ELSE "WriteError",
                        t.key, FALSE)
    /\ UNCHANGED <<env_var, api_url, credentials, load_credentials_task>>
    /\ UNCHANGED <<catalog_vars, handle_vars>>

\* The future of set_api_key after the write has answered (lines 89-93).
SetUpdate(t) ==
    /\ t \in Running
    /\ t.kind = "set_api_key" /\ t.pc \in {"written", "write_failed"}
    /\ api_key' = t.key
    /\ api_key_from_env' = FALSE
    /\ tasks' = Retire(t)
    /\ last' = Finished("set_api_key", IF t.pc = "written" THEN "Ok" ELSE "OkWriteFailed",
                        t.key, FALSE)
    /\ UNCHANGED <<env_var, api_url, credentials, load_credentials_task>>
    /\ UNCHANGED <<catalog_vars, handle_vars>>

----------------------------------------------------------------------------
(* GrokLanguageModelProvider: the host's entry points to State *)

\* LanguageModelProvider::authenticate (lines 320-322).
ProviderAuthenticate ==
    /\ authenticate(FALSE)
    /\ UNCHANGED load_credentials_task
    /\ UNCHANGED <<catalog_vars, handle_vars>>

\* LanguageModelProvider::reset_credentials (lines 329-331).
reset_credentials == reset_api_key

----------------------------------------------------------------------------
(* ConfigurationView *)

\* ConfigurationView::new (lines 458-494): the view starts with its load task.
configuration_view ==
    /\ load_credentials_task = "no_view"
    /\ load_credentials_task' = "spawned"
    /\ UNCHANGED <<api_key, api_key_from_env, env_var, api_url, credentials, tasks, last>>
    /\ UNCHANGED <<catalog_vars, handle_vars>>

\* The load task's first poll (lines 473-478): it calls State::authenticate and
\* awaits the Task; a ready Task lets it run on to lines 481-484.
LoadCredentialsStart ==
    /\ load_credentials_task = "spawned"
    /\ authenticate(TRUE)
    /\ load_credentials_task' = IF is_authenticated THEN "None" ELSE "awaiting"
    /\ UNCHANGED <<catalog_vars, handle_vars>>

\* The load task after the awaited authenticate Task has finished (lines 481-484).
LoadCredentialsFinish ==
    /\ load_credentials_task = "awaiting"
    /\ \A t \in Running : ~t.awaited
    /\ load_credentials_task' = "None"
    /\ UNCHANGED <<api_key, api_key_from_env, env_var, api_url, credentials, tasks, last>>
    /\ UNCHANGED <<catalog_vars, handle_vars>>

\* ConfigurationView::should_render_editor (lines 538-540).
should_render_editor == ~api_key_from_env

\* Render for ConfigurationView (lines 543-598): which of the three bodies is drawn.
Render ==
    IF load_credentials_task \in {"spawned", "awaiting"} THEN "loading"
    ELSE IF should_render_editor THEN "form"
    ELSE IF api_key_from_env THEN "status_env"
    ELSE "status_authenticated"

\* ConfigurationView::save_api_key (lines 496-511), the Confirm action of the
\* form; the detached task it spawns does nothing but call set_api_key.
save_api_key(text) ==
    /\ load_credentials_task # "no_view"
    /\ Render = "form"
    /\ text # ""
    /\ set_api_key(text)
    /\ UNCHANGED load_credentials_task
    /\ UNCHANGED <<catalog_vars, handle_vars>>

----------------------------------------------------------------------------
(* The catalog *)

\* Number of entries of settings.grok.available_models.
MaxOverrides == 2

\* Option<T> of the model metadata: Some(x) or Nothing.
Some(x) == <<x>>
Nothing == << >>

\* open_ai::Model::Custom
Custom(name, display_name, max_tokens, max_output_tokens, max_completion_tokens) ==
    [name |-> name, display_name |-> display_name, max_tokens |-> max_tokens,
     max_output_tokens |-> max_output_tokens,
     max_completion_tokens |-> max_completion_tokens]

\* The names settings entries are drawn from: built-in names, a key that is no
\* built-in's name, and a name of the operator's own.
OverrideNames ==
    {"grok-3-latest", "grok-3-mini-latest", "grok-3-mini-thinking-latest", "my-model"}

\* AvailableModel values (lines 44-50) of the settings.
AvailableModel ==
    [name : OverrideNames, display_name : {"Custom A", "Custom B"},
     max_tokens : {8192}, max_output_tokens : {Nothing, Some(1024)},
     max_completion_tokens : {Nothing}]

SeqsUpTo(S, n) == UNION {[1..k -> S] : k \in 0..n}

\* Every key the map can hold, in the order of Rust's Ord for String.
KeyOrder ==
    << "grok-2-latest", "grok-2-vision-latest", "grok-3-fast-latest", "grok-3-latest",
       "grok-3-mini-fast-latest", "grok-3-mini-latest",
       "grok-3-mini-thinking-fast-latest", "grok-3-mini-thinking-latest", "my-model" >>

\* BTreeMap::insert: the value under an existing key is replaced.
insert(map, key, value) ==
    [k \in DOMAIN map \cup {key} |-> IF k = key THEN value ELSE map[k]]

\* BTreeMap::into_values: the values in ascending key order.
into_values(map) ==
    LET keys == SelectSeq(KeyOrder, LAMBDA k : k \in DOMAIN map)
    IN  [i \in 1..Len(keys) |-> map[keys[i]]]

\* The eight inserts of lines 201-291, as key :> value.
BuiltinModels ==
    LET m0 == [k \in {} |-> None]
        m1 == insert(m0, "grok-3-latest",
                  Custom("grok-3-latest", Some("Grok 3"), 131072, Some(4096), Some(4096)))
        m2 == insert(m1, "grok-3-fast-latest",
                  Custom("grok-3-fast-latest", Some("Grok 3 Fast"), 131072, Some(4096), Some(4096)))
        m3 == insert(m2, "grok-3-mini-latest",
                  Custom("grok-3-mini-latest", Some("Grok 3 Mini"), 131072, Some(4096), Some(4096)))
        m4 == insert(m3, "grok-3-mini-fast-latest",
                  Custom("grok-3-mini-fast-latest", Some("Grok 3 Mini Fast"), 131072, Some(4096), Some(4096)))
        m5 == insert(m4, "grok-3-mini-thinking-latest",
                  Custom("grok-3-mini-latest", Some("Grok 3 Mini (Thinking)"), 131072, Some(4096), Some(4096)))
        m6 == insert(m5, "grok-3-mini-thinking-fast-latest",
                  Custom("grok-3-mini-fast-latest", Some("Grok 3 Mini Fast (Thinking)"),
                         131072, Some(4096), Some(4096)))
        m7 == insert(m6, "grok-2-latest",
                  Custom("grok-2-latest", Some("Grok 2"), 131072, Some(4096), Some(4096)))
        m8 == insert(m7, "grok-2-vision-latest",
                  Custom("grok-2-vision-latest", Some("Grok 2 Vision"), 32768, Some(4096), Some(4096)))
    IN  m8

\* The loop of lines 294-308 over the settings entries, in order.
RECURSIVE InsertOverrides(_, _)
InsertOverrides(map, overrides) ==
    IF overrides = << >> THEN map
    ELSE LET model == Head(overrides)
         IN  InsertOverrides(
                 insert(map, model.name,
                        Custom(model.name, Some(model.display_name), model.max_tokens,
                               model.max_output_tokens, model.max_completion_tokens)),
                 Tail(overrides))

\* open_ai::Model::id of a Custom model: its name.
ModelId(model) == model.name

\* create_language_model as it would be with a limiter of five permits.
create_language_model_5(model) ==
    [id |-> ModelId(model), model |-> model, request_limiter |-> 5]

\* GrokLanguageModelProvider::create_language_model (lines 145-153).
create_language_model(model) ==
    [id |-> ModelId(model), model |-> model, request_limiter |-> 4]

\* LanguageModelProvider::provided_models (lines 197-314).
provided_models(settings_models) ==
    LET models == into_values(InsertOverrides(BuiltinModels, settings_models))
    IN  [i \in 1..Len(models) |-> create_language_model(models[i])]

\* The host asks the provider for its models.
ProvidedModels ==
    /\ catalog' = provided_models(available_models)
    /\ UNCHANGED <<api_key, api_key_from_env, env_var, api_url, credentials, tasks,
                   load_credentials_task, last, available_models, handle_vars>>

\* LanguageModelProvider::default_model (lines 177-185).
default_model ==
    create_language_model(Custom("grok-3-latest", Some("Grok 3"), 131072, Some(4096), Some(4096)))

----------------------------------------------------------------------------
(* The model handle *)

\* Number of stream_completion calls of the handle that have not finished.
MaxCalls == 5

\* The public endpoint an empty api_url stands for (line 360).
DefaultUrl == "https://api.x.ai/v1"

\* The record of a finished call: its result and the key it was made with.
FinishedCall(res, key) == [res |-> res, key |-> key]

NoCall == [res |-> "none", key |-> None]

InFlight == BagToSet(calls)

\* RateLimiter: a semaphore; acquiring waits while no permit is free, and the
\* guard gives the permit back when it is dropped.
CanAcquire == request_limiter > 0
Acquire == request_limiter - 1
Release == request_limiter + 1

\* GrokLanguageModel::stream_completion up to the return of the future
\* (lines 349-369): the key and the url are read now; the future queues for a permit.
stream_completion ==
    /\ BagCardinality(calls) < MaxCalls
    /\ calls' = calls (+) SetToBag({[key |-> api_key, url |-> api_url, pc |-> "queued"]})
    /\ UNCHANGED <<api_key, api_key_from_env, env_var, api_url, credentials, tasks,
                   load_credentials_task, last, catalog_vars, request_limiter, last_call>>

\* StreamStart as it would be if the key were read from State when the permit
\* is granted instead of when the call is made.
StreamStart_ReadsKeyLate(c) ==
    /\ c \in InFlight /\ c.pc = "queued"
    /\ CanAcquire
    /\ IF api_key = None
       THEN /\ calls' = calls (-) SetToBag({c})
            /\ last_call' = FinishedCall("MissingKey", None)
            /\ UNCHANGED request_limiter
       ELSE /\ request_limiter' = Acquire
            /\ calls' = (calls (-) SetToBag({c})) (+)
                        SetToBag({[c EXCEPT !.pc = "requesting",
                                            !.url = IF c.url = "" THEN DefaultUrl ELSE c.url]})
            /\ UNCHANGED last_call
    /\ UNCHANGED <<api_key, api_key_from_env, env_var, api_url, credentials, tasks,
                   load_credentials_task, last, catalog_vars>>

\* The future inside request_limiter.stream once it holds a permit
\* (lines 358-365): without a key it fails and the permit is dropped again;
\* with one it opens the request and awaits the response.
StreamStart(c) ==
    /\ c \in InFlight /\ c.pc = "queued"
    /\ CanAcquire
    /\ IF c.key = None
       THEN /\ calls' = calls (-) SetToBag({c})
            /\ last_call' = FinishedCall("MissingKey", None)
            /\ UNCHANGED request_limiter
       ELSE /\ request_limiter' = Acquire
            /\ calls' = (calls (-) SetToBag({c})) (+)
                        SetToBag({[c EXCEPT !.pc = "requesting",
                                            !.url = IF c.url = "" THEN DefaultUrl ELSE c.url]})
            /\ UNCHANGED last_call
    /\ UNCHANGED <<api_key, api_key_from_env, env_var, api_url, credentials, tasks,
                   load_credentials_task, last, catalog_vars>>

\* The wire-format client answers (line 365): a response stream, which keeps
\* the permit while it lives, or an error, which drops it.
StreamResponse(c) ==
    /\ c \in InFlight /\ c.pc = "requesting"
    /\ \E ok \in BOOLEAN :
        IF ok
        THEN /\ calls' = (calls (-) SetToBag({c})) (+) SetToBag({[c EXCEPT !.pc = "streaming"]})
             /\ UNCHANGED <<request_limiter, last_call>>
        ELSE /\ calls' = calls (-) SetToBag({c})
             /\ request_limiter' = Release
             /\ last_call' = FinishedCall("TransportError", c.key)
    /\ UNCHANGED <<api_key, api_key_from_env, env_var, api_url, credentials, tasks,
                   load_credentials_task, last, catalog_vars>>

\* The host has consumed or dropped the response stream: its guard is dropped.
StreamEnd(c) ==
    /\ c \in InFlight /\ c.pc = "streaming"
    /\ calls' = calls (-) SetToBag({c})
    /\ request_limiter' = Release
    /\ last_call' = FinishedCall("Completed", c.key)
    /\ UNCHANGED <<api_key, api_key_from_env, env_var, api_url, credentials, tasks,
                   load_credentials_task, last, catalog_vars>>

----------------------------------------------------------------------------
(* Specification of State and the configuration view *)

\* GrokLanguageModelProvider::new (lines 133-143) in an environment, a store and
\* settings the process starts with; no handle has been used yet.
InitProvider ==
    /\ api_key = None
    /\ api_key_from_env = FALSE
    /\ env_var \in EnvValues
    /\ api_url \in Urls
    /\ \E stored \in {None, "k1", InvalidUtf8} :
        credentials = [u \in Urls |-> IF u = api_url THEN stored ELSE None]
    /\ tasks = EmptyBag
    /\ load_credentials_task = "no_view"
    /\ last = NoOp
    /\ catalog = << >>
    /\ request_limiter = default_model.request_limiter
    /\ calls = EmptyBag
    /\ last_call = NoCall

Init ==
    /\ InitProvider
    /\ available_models = << >>

Next ==
    \/ ProviderAuthenticate
    \/ reset_credentials
    \/ configuration_view
    \/ LoadCredentialsStart
    \/ LoadCredentialsFinish
    \/ \E text \in EditorTexts : save_api_key(text)
    \/ \E t \in Running : AuthenticateRun(t)
    \/ \E t \in Running : AuthenticateResume(t)
    \/ \E t \in Running : ResetRun(t)
    \/ \E t \in Running : SetWrite(t)
    \/ \E t \in Running : SetUpdate(t)

Spec == Init /\ [][Next]_vars

----------------------------------------------------------------------------
(* Specification of the catalog: provided_models over bounded settings *)

InitCatalog ==
    /\ InitProvider
    /\ available_models \in SeqsUpTo(AvailableModel, MaxOverrides)

NextCatalog == ProvidedModels

SpecCatalog == InitCatalog /\ [][NextCatalog]_vars

----------------------------------------------------------------------------
(* Specification of the model handle: stream_completion calls of one handle *)
(* while the host authenticates and resets the credentials                  *)

InitHandle ==
    /\ Init
    /\ env_var \in {None, EnvKey}
    /\ credentials[api_url] \in {None, "k1"}

NextHandle ==
    \/ stream_completion
    \/ \E c \in InFlight : StreamStart(c)
    \/ \E c \in InFlight : StreamResponse(c)
    \/ \E c \in InFlight : StreamEnd(c)
    \/ ProviderAuthenticate
    \/ reset_credentials
    \/ \E t \in Running : AuthenticateRun(t)
    \/ \E t \in Running : AuthenticateResume(t)
    \/ \E t \in Running : ResetRun(t)

SpecHandle == InitHandle /\ [][NextHandle]_vars

----------------------------------------------------------------------------
(* Steps of the specifications, told by what they leave behind *)

\* An authenticate() finished in this step.
AuthenticateDone == last' # last /\ last'.kind = "authenticate"
\* A set_api_key task finished in this step.
SetDone == last' # last /\ last'.kind = "set_api_key"
\* A reset_api_key task finished in this step.
ResetDone == last' # last /\ last'.kind = "reset_api_key"
\* The authenticate task t resumed after its read and finished in this step.
Resumed(t) ==
    /\ t \in Running /\ t.kind = "authenticate" /\ t.pc = "read"
    /\ AuthenticateDone /\ tasks' = Retire(t)
\* The authenticate task t2 got the store's answer in this step.
ReadAnswered(t2) ==
    /\ t2.kind = "authenticate" /\ t2.pc = "read"
    /\ CopiesIn(t2, tasks') > CopiesIn(t2, tasks)

----------------------------------------------------------------------------
(* C1 *)

BuiltinNames == {BuiltinModels[k].name : k \in DOMAIN BuiltinModels}

\* The settings entry at i is the one in force for its name: no later entry
\* of the list carries the same name.
InForce(i) ==
    \A j \in DOMAIN available_models :
        j > i => available_models[j].name # available_models[i].name

\* C1: after provided_models(), every settings entry in force whose name is a
\* built-in model's name is exactly one handle of the catalog with that name,
\* that handle carries the entry's metadata, and no other handle has that id.
C1_OverrideIsTheOnlyEntry ==
    catalog # << >> =>
        \A i \in DOMAIN available_models :
            LET o == available_models[i]
                same == {j \in DOMAIN catalog :
                            catalog[j].model.name = o.name \/ catalog[j].id = o.name}
            IN  (InForce(i) /\ o.name \in BuiltinNames) =>
                    /\ Cardinality(same) = 1
                    /\ \A j \in same :
                        /\ catalog[j].model.display_name = Some(o.display_name)
                        /\ catalog[j].model.max_tokens = o.max_tokens
                        /\ catalog[j].model.max_output_tokens = o.max_output_tokens
                        /\ catalog[j].model.max_completion_tokens = o.max_completion_tokens

----------------------------------------------------------------------------
(* C2 *)

\* C2 as stated: with XAI_API_KEY set, every authenticate() that finishes
\* succeeds, leaves api_key_from_env true and api_key equal to the variable,
\* and does not write the credential store.
C2_AuthenticateAlwaysAdoptsEnv ==
    [][(env_var = EnvKey /\ AuthenticateDone) =>
            /\ last'.res = "Ok"
            /\ api_key_from_env' /\ api_key' = env_var
            /\ credentials' = credentials]_vars

\* C2 amended: with XAI_API_KEY set to a Unicode value, every authenticate()
\* that finishes succeeds and does not write the store; one called while State
\* was unauthenticated sets api_key to the variable and api_key_from_env to
\* true when it finishes, one called while State was authenticated changes
\* nothing; and the variable's value is never put into the store.
C2_AuthenticateFromEnv ==
    [][env_var = EnvKey =>
            /\ AuthenticateDone =>
                /\ last'.res = "Ok"
                /\ credentials' = credentials
                /\ IF last'.ready
                   THEN is_authenticated /\ UNCHANGED <<api_key, api_key_from_env>>
                   ELSE api_key_from_env' /\ api_key' = env_var
            /\ \A u \in Urls : credentials'[u] # env_var]_vars

\* An authenticate() called while unauthenticated has adopted the variable
\* although the store holds a key.
C2_Witness ==
    /\ env_var = EnvKey /\ credentials[api_url] \in UserKeys
    /\ last.kind = "authenticate" /\ ~last.ready /\ last.res = "Ok"
    /\ api_key = EnvKey /\ api_key_from_env

----------------------------------------------------------------------------
(* C3 *)

\* C3: with the variable absent, an authenticate() called while State was
\* unauthenticated whose read of the store answers "no entry" fails with
\* CredentialsNotFound and changes neither api_key nor api_key_from_env; the
\* answer of a read is the entry the store holds for the configured url.
C3_NotFoundLeavesState ==
    [][env_var = None =>
            /\ \A t \in Running :
                (Resumed(t) /\ t.key = None) =>
                    /\ last'.res = "CredentialsNotFound"
                    /\ UNCHANGED <<api_key, api_key_from_env>>
            /\ \A t2 \in BagToSet(tasks') :
                (ReadAnswered(t2) /\ credentials[api_url] = None) =>
                    t2.key \in {None, ReadFailed}]_vars

\* authenticate() has failed with CredentialsNotFound and State is unauthenticated.
C3_Witness ==
    /\ env_var = None /\ credentials[api_url] = None
    /\ last.kind = "authenticate" /\ last.res = "CredentialsNotFound"
    /\ api_key = None /\ ~api_key_from_env /\ ~is_authenticated

----------------------------------------------------------------------------
(* C4 *)

\* C4: with the variable absent, an authenticate() called while State was
\* unauthenticated whose read of the store answers a saved key succeeds and,
\* when it finishes, api_key is that key and api_key_from_env is false; the
\* answer of a read is the entry the store holds for the configured url.
C4_StoredKeyAdopted ==
    [][env_var = None =>
            /\ \A t \in Running :
                (Resumed(t) /\ t.key \in UserKeys) =>
                    /\ last'.res = "Ok"
                    /\ api_key' = t.key /\ ~api_key_from_env'
            /\ \A t2 \in BagToSet(tasks') :
                (ReadAnswered(t2) /\ credentials[api_url] \in UserKeys) =>
                    t2.key \in {credentials[api_url], ReadFailed}]_vars

\* authenticate() has succeeded with the key the store holds.
C4_Witness ==
    /\ env_var = None /\ credentials[api_url] \in UserKeys
    /\ last.kind = "authenticate" /\ last.res = "Ok" /\ ~last.ready
    /\ api_key = credentials[api_url] /\ ~api_key_from_env

----------------------------------------------------------------------------
(* C5 *)

\* The calls of the bag b that hold a permit.
HoldingIn(b) ==
    LET S == {c \in BagToSet(b) : c.pc \in {"requesting", "streaming"}}
        RECURSIVE Sum(_)
        Sum(T) == IF T = {} THEN 0
                  ELSE LET c == CHOOSE x \in T : TRUE IN CopiesIn(c, b) + Sum(T \ {c})
    IN  Sum(S)

\* C5: a handle never has more than 4 calls holding a permit with a request
\* open; a call made while 4 hold one is taken and queued, not failed, and no
\* queued call opens its request while 4 hold a permit.
C5_AtMostFourInFlight ==
    [][/\ HoldingIn(calls') <= 4
       /\ (HoldingIn(calls) = 4 /\ BagCardinality(calls') > BagCardinality(calls)) =>
            /\ \E c \in BagToSet(calls') :
                c.pc = "queued" /\ calls' = calls (+) SetToBag({c})
            /\ last_call' = last_call
       /\ HoldingIn(calls') > HoldingIn(calls) => HoldingIn(calls) < 4]_vars

\* Four calls hold a permit and a fifth, made with a key, waits.
C5_Witness ==
    /\ HoldingIn(calls) = 4
    /\ \E c \in InFlight : c.pc = "queued" /\ c.key # None

----------------------------------------------------------------------------
(* C6 *)

\* C6: a call takes the api_key State holds when it is made; a call made
\* without a key never has a request open at the wire-format client, and it
\* leaves the queue only by failing with the missing-key error, whatever State
\* holds by then.
C6_NoKeyNoRequest ==
    [][/\ \A c \in BagToSet(calls') :
            /\ c.pc \in {"requesting", "streaming"} => c.key # None
            /\ (c.pc = "queued" /\ CopiesIn(c, calls') > CopiesIn(c, calls)) =>
                    c.key = api_key
       /\ \A c \in InFlight :
            (c.pc = "queued" /\ c.key = None /\ CopiesIn(c, calls') < CopiesIn(c, calls)) =>
                /\ calls' = calls (-) SetToBag({c})
                /\ last_call' = FinishedCall("MissingKey", None)
                /\ request_limiter' = request_limiter]_vars

\* A call made without a key has failed with the missing-key error although
\* State holds a key by now.
C6_Witness ==
    /\ last_call.res = "MissingKey"
    /\ is_authenticated
    /\ request_limiter = 4

----------------------------------------------------------------------------
(* C7 *)

\* C7: once the load task has finished, the view draws the form exactly when
\* State is unauthenticated and the key is not from the environment, and it
\* draws the status line whenever State is authenticated, in the wording of
\* the key's origin.
C7_ViewFollowsState ==
    load_credentials_task = "None" =>
        /\ Render = "form" <=> (~is_authenticated /\ ~api_key_from_env)
        /\ is_authenticated =>
            Render = IF api_key_from_env THEN "status_env" ELSE "status_authenticated"

----------------------------------------------------------------------------
(* C8 *)

\* C8: the step in which the store answers the write of a set_api_key task
\* leaves State alone; the step in which the task finishes comes after that
\* answer and sets api_key to the task's key and api_key_from_env to false,
\* with a success result, whether the write succeeded or failed; a write that
\* succeeded has put the key into the store under the configured url.
C8_SetMutatesAfterWrite ==
    [][/\ SetDone =>
            /\ \E t \in Running :
                /\ t.kind = "set_api_key" /\ t.pc \in {"written", "write_failed"}
                /\ t.key = last'.key /\ tasks' = Retire(t)
            /\ last'.res \in {"Ok", "OkWriteFailed"}
            /\ api_key' = last'.key /\ ~api_key_from_env'
       /\ \A t2 \in BagToSet(tasks') :
            (/\ t2.kind = "set_api_key" /\ t2.pc \in {"written", "write_failed"}
             /\ CopiesIn(t2, tasks') > CopiesIn(t2, tasks)) =>
                /\ UNCHANGED <<api_key, api_key_from_env>>
                /\ t2.pc = "written" => credentials'[t2.url] = t2.key
                /\ t2.pc = "write_failed" => credentials' = credentials]_vars

\* A set_api_key task whose write failed has finished: State holds its key,
\* the store does not.
C8_Witness ==
    /\ last.kind = "set_api_key" /\ last.res = "OkWriteFailed"
    /\ api_key = last.key /\ ~api_key_from_env
    /\ credentials[api_url] # api_key

----------------------------------------------------------------------------
(* C9 *)

\* C9: the step in which a reset_api_key task finishes sets api_key to absent
\* and api_key_from_env to false and leaves the store as it is; when the next
\* operation to finish is an authenticate(), it makes State authenticated with
\* the variable's value if that is set, and with the key its read of the
\* store answered otherwise, and a read made then answers the store's entry.
C9_ResetKeepsStore ==
    [][/\ ResetDone =>
            /\ api_key' = None /\ ~api_key_from_env'
            /\ credentials' = credentials
       /\ (last.kind = "reset_api_key" /\ AuthenticateDone) =>
            /\ ~last'.ready
            /\ env_var = EnvKey => (api_key' = EnvKey /\ api_key_from_env')
            /\ \A t \in Running :
                (Resumed(t) /\ t.key \in UserKeys) => (api_key' = t.key /\ ~api_key_from_env')
       /\ last.kind = "reset_api_key" =>
            \A t2 \in BagToSet(tasks') :
                ReadAnswered(t2) => t2.key \in {credentials[api_url], ReadFailed}]_vars

\* After a reset, authenticate() has made State authenticated again with the
\* key the store still holds.
C9_Witness ==
    /\ last.kind = "authenticate" /\ last.after_reset /\ last.res = "Ok"
    /\ api_key \in UserKeys /\ api_key = credentials[api_url] /\ ~api_key_from_env

----------------------------------------------------------------------------
(* C10 *)

\* C10: whatever tasks are in flight, every step leaves a State in which
\* api_key_from_env implies that api_key is present (is_authenticated), and
\* api_key and api_key_from_env change only in the one step in which a State
\* operation finishes.
C10_FlagImpliesKey ==
    [][/\ api_key_from_env' => (api_key' # None /\ is_authenticated')
       /\ (api_key' # api_key \/ api_key_from_env' # api_key_from_env) => last' # last]_vars

\* The flag is set, the key is present, and another task is in flight.
C10_Witness ==
    /\ api_key_from_env /\ api_key = EnvKey
    /\ tasks # EmptyBag

----------------------------------------------------------------------------
(* C11 *)

\* The operation that finished last is a set_api_key or a reset_api_key that
\* finished while authenticate tasks were in flight, and no authenticate task
\* has been started since: every authenticate task now in flight was in flight
\* when it finished.
OvertakenBySetOrReset ==
    /\ last.kind \in {"set_api_key", "reset_api_key"}
    /\ last.raced > 0
    /\ AuthInFlight = last.raced

\* C11: an authenticate() task started while State was unauthenticated that
\* resumes from its read of the store after a set_api_key or reset_api_key
\* which completed while it was in flight leaves api_key and api_key_from_env
\* as that operation set them, so that State reflects the operation requested
\* last.
C11_AuthenticateNeverOverwrites ==
    [][\A t \in Running :
            (OvertakenBySetOrReset /\ Resumed(t)) =>
                UNCHANGED <<api_key, api_key_from_env>>]_vars

====
